---- MODULE Spec2Model ----
(***************************************************************************)
(* A model of Monika, a terminal-menu generator of multi-word keys.        *)
(*                                                                         *)
(* Strings are sequences of one-character strings, so that strip, replace, *)
(* lower, join, isdigit and int act on characters as they do in Python.    *)
(* A Cyrillic letter is written as a transliterated token ("zh", "ZH");    *)
(* "sup2" is the character SUPERSCRIPT TWO, "ua_i" the Ukrainian letter i. *)
(* A path is a one-token string (<<"results">>).                           *)
(*                                                                         *)
(* The program is one sequential process.  pc is its position: the         *)
(* blocking call (input, time.sleep) or file operation it is at.  An       *)
(* action runs the code from one such position to the next.                *)
(***************************************************************************)
EXTENDS Integers, Sequences, FiniteSets, TLC

VARIABLES
    pc,             \* position of the process
    exit_status,    \* the process's exit status once pc = "exited" (-1 before)
    exit_cause,     \* which path of the code ended the process
    config_file,    \* config.txt on disk: [exists, lines]
    wordlist_file,  \* wordlist.txt on disk: [exists, lines]
    dirs,           \* the output directories that exist
    files,          \* the key files on disk: <<path, index>> -> content
    cfg,            \* main_menu's cfg dict
    first_run,      \* main_menu's first_run
    count,          \* main_menu's count / generate_keys's count_files
    words_per_key,  \* main_menu's words_per_key
    out_path,       \* main_menu's out_path
    wordlist,       \* main_menu's wordlist
    file_idx,       \* generate_keys's file_idx
    selected,       \* generate_keys's selected
    printed,        \* the messages printed since the menu was last shown
    word,           \* sanitize_word's argument
    san,            \* sanitize_word's return value
    sigint,         \* a KeyboardInterrupt is being raised in the process
    runs,           \* history: how many generation runs were started
    pre_files,      \* history: the key files as the current run found them
    pre_dirs,       \* history: the directories as the current run found them
    writes          \* history: the indices the current run has written, in order

vars == <<pc, exit_status, exit_cause, config_file, wordlist_file, dirs, files,
          cfg, first_run, count, words_per_key, out_path, wordlist, file_idx,
          selected, printed, word, san, sigint, runs, pre_files, pre_dirs,
          writes>>

(***************************************************************************)
(* Bounds of the model.                                                    *)
(***************************************************************************)
MaxLineLen == 3     \* characters of a raw line given to sanitize_word
MaxLines == 4       \* lines of a word-list file given to the loader
MaxDigit == 2       \* the largest digit a user types at a numeric prompt
MaxRuns == 2        \* generation runs started in one session
MaxCount == 3       \* count_files of a direct generate_keys call
MaxWords == 3       \* words_per_key of a direct generate_keys call

(***************************************************************************)
(* Python's str methods.                                                   *)
(***************************************************************************)
Range(s) == {s[i] : i \in 1..Len(s)}

SeqsUpTo(S, n) == UNION {[1..k -> S] : k \in 0..n}

Whitespace == {" ", "\t", "\n"}

RECURSIVE lstrip(_)
lstrip(s) ==
    IF s # <<>> /\ Head(s) \in Whitespace THEN lstrip(Tail(s)) ELSE s

RECURSIVE rstrip(_)
rstrip(s) ==
    IF s # <<>> /\ s[Len(s)] \in Whitespace
    THEN rstrip(SubSeq(s, 1, Len(s) - 1))
    ELSE s

strip(s) == rstrip(lstrip(s))

\* s.replace(" ", "")
replace_spaces(s) == SelectSeq(s, LAMBDA c : c # " ")

lower_char(c) ==
    CASE c = "A" -> "a"
      [] c = "B" -> "b"
      [] c = "ZH" -> "zh"
      [] OTHER -> c

lower(s) == [i \in 1..Len(s) |-> lower_char(s[i])]

RECURSIVE join(_)
\* " ".join(ws)
join(ws) ==
    IF ws = <<>> THEN <<>>
    ELSE IF Len(ws) = 1 THEN ws[1]
    ELSE ws[1] \o <<" ">> \o join(Tail(ws))

DecimalChars == {"0", "1", "2", "3", "4", "5", "6", "7", "8", "9"}

digit_value(c) ==
    CASE c = "0" -> 0 [] c = "1" -> 1 [] c = "2" -> 2 [] c = "3" -> 3
      [] c = "4" -> 4 [] c = "5" -> 5 [] c = "6" -> 6 [] c = "7" -> 7
      [] c = "8" -> 8 [] c = "9" -> 9

digit_char(d) == <<"0", "1", "2", "3", "4", "5", "6", "7", "8", "9">>[d + 1]

\* str.isdigit: every character is a digit, superscript digits included
isdigit(s) == s # <<>> /\ \A i \in 1..Len(s) : s[i] \in DecimalChars \cup {"sup2"}

RECURSIVE decimal_value(_)
decimal_value(s) ==
    IF s = <<>> THEN 0
    ELSE decimal_value(SubSeq(s, 1, Len(s) - 1)) * 10 + digit_value(s[Len(s)])

int_digits(s) ==
    LET t == strip(s)
    IN  IF t # <<>> /\ Head(t) \in {"-", "+"} THEN Tail(t) ELSE t

\* int(s) raises ValueError unless s is an optionally signed decimal literal
int_raises(s) ==
    LET d == int_digits(s)
    IN  d = <<>> \/ \E i \in 1..Len(d) : d[i] \notin DecimalChars

int(s) ==
    LET t == strip(s)
        v == decimal_value(int_digits(s))
    IN  IF t # <<>> /\ Head(t) = "-" THEN 0 - v ELSE v

RECURSIVE str_nat(_)
str_nat(n) ==
    IF n < 10 THEN <<digit_char(n)>>
    ELSE str_nat(n \div 10) \o <<digit_char(n % 10)>>

\* str(n)
str(n) == IF n < 0 THEN <<"-">> \o str_nat(0 - n) ELSE str_nat(n)

(***************************************************************************)
(* sanitize_word and load_and_clean_wordlist.                              *)
(***************************************************************************)
allowed ==
    {"a", "b", "c", "d", "e", "f", "g", "h", "i", "j", "k", "l", "m", "n",
     "o", "p", "q", "r", "s", "t", "u", "v", "w", "x", "y", "z",
     "zh", "yo", "-", "'"}

\* A variant that drops the characters outside the allowed set.
sanitize_word_dropping(w0) ==
    SelectSeq(lower(replace_spaces(strip(w0))), LAMBDA c : c \in allowed)

sanitize_word(w0) ==
    LET w == lower(replace_spaces(strip(w0)))
    IN  IF w = <<>> THEN <<>>
        ELSE IF \E i \in 1..Len(w) : w[i] \notin allowed THEN <<>>
        ELSE w

RECURSIVE clean_lines(_)
\* the loop over the file: each line arrives with its line break
clean_lines(lines) ==
    IF lines = <<>> THEN <<>>
    ELSE LET s == sanitize_word(Head(lines) \o <<"\n">>)
         IN  (IF s # <<>> THEN <<s>> ELSE <<>>) \o clean_lines(Tail(lines))

RECURSIVE dedupe_keep_last(_)
\* A variant that keeps each token's last occurrence.
dedupe_keep_last(xs) ==
    IF xs = <<>> THEN <<>>
    ELSE IF Head(xs) \in Range(Tail(xs)) THEN dedupe_keep_last(Tail(xs))
    ELSE <<Head(xs)>> \o dedupe_keep_last(Tail(xs))

RECURSIVE fromkeys(_, _)
\* list(dict.fromkeys(xs)): a key is inserted when first seen
fromkeys(xs, acc) ==
    IF xs = <<>> THEN acc
    ELSE fromkeys(Tail(xs),
                  IF Head(xs) \in Range(acc) THEN acc ELSE Append(acc, Head(xs)))

dedupe(xs) == fromkeys(xs, <<>>)

load_and_clean_wordlist(f) ==
    IF ~f.exists THEN <<>> ELSE dedupe(clean_lines(f.lines))

(***************************************************************************)
(* The configuration store: DEFAULT_CONFIG, read_config, write_config.     *)
(* A line of config.txt is [k, v] for "k=v"; k = "#" is a comment line.    *)
(* cfg is a function from its keys to their values.                        *)
(***************************************************************************)
DEFAULT_CONFIG ==
    [count_files |-> <<"1">>, words_per_key |-> <<"3">>, output_path |-> <<"results">>]

DefaultKeys == <<"count_files", "words_per_key", "output_path">>

\* the order in which write_config emits the keys it knows, unknown keys last
KeyOrder == DefaultKeys \o <<"theme">>

cfg_line(k, v) == [k |-> k, v |-> v]

\* cfg.get(k)
cfg_get(c, k) == IF k \in DOMAIN c THEN c[k] ELSE <<>>

\* cfg.get(k, d)
cfg_get_or(c, k, d) == IF k \in DOMAIN c THEN c[k] ELSE d

\* cfg[k] = v
cfg_set(c, k, v) == (k :> v) @@ c

EmptyDict == [k \in {} |-> <<>>]

RECURSIVE parse_lines(_, _)
\* the loop of read_config over the lines of the file
parse_lines(lines, acc) ==
    IF lines = <<>> THEN acc
    ELSE LET l == Head(lines)
         IN  parse_lines(Tail(lines),
                         IF l.k = "#" THEN acc ELSE cfg_set(acc, l.k, strip(l.v)))

\* for k, v in DEFAULT_CONFIG.items(): if not cfg.get(k): cfg[k] = v
fill_defaults(c) ==
    [k \in DOMAIN c \cup Range(DefaultKeys) |->
        IF k \in Range(DefaultKeys) /\ cfg_get(c, k) = <<>>
        THEN DEFAULT_CONFIG[k]
        ELSE c[k]]

\* the content write_config(c) leaves in config.txt
write_config(c) ==
    LET ks == SelectSeq(KeyOrder, LAMBDA k : k \in DOMAIN c)
    IN  [exists |-> TRUE, lines |-> [i \in 1..Len(ks) |-> cfg_line(ks[i], c[ks[i]])]]

read_config(f) ==
    IF ~f.exists THEN DEFAULT_CONFIG
    ELSE fill_defaults(parse_lines(f.lines, EmptyDict))

(***************************************************************************)
(* is_positive_int_str and prompt_positive_int.                            *)
(***************************************************************************)
\* "True", "False", or "ValueError" when int(s) raises after isdigit accepted s
is_positive_int_str(s) ==
    IF ~isdigit(s) THEN "False"
    ELSE IF int_raises(s) THEN "ValueError"
    ELSE IF int(s) > 0 THEN "True"
    ELSE "False"

\* what prompt_positive_int does with the typed line r:
\* returns a value, warns and returns the default, or raises
prompt_positive_int(r, default) ==
    LET resp == strip(r)
        p == is_positive_int_str(resp)
    IN  IF resp = <<>> THEN [kind |-> "value", value |-> default]
        ELSE IF p = "True" THEN [kind |-> "value", value |-> int(resp)]
        ELSE IF p = "ValueError" THEN [kind |-> "raised", value |-> default]
        ELSE [kind |-> "warned", value |-> default]

(***************************************************************************)
(* generate_keys's building blocks.                                        *)
(***************************************************************************)
\* the values secrets.randbelow(n) may return
randbelow(n) == 0..(n - 1)

\* A variant that never draws the same index twice (sampling without replacement).
draws_without_replacement(wl, m) ==
    {[i \in 1..m |-> wl[r[i] + 1]] :
        r \in {q \in [1..m -> randbelow(Len(wl))] :
                  \A i, j \in 1..m : i # j => q[i] # q[j]}}

\* the lists [wordlist[secrets.randbelow(total_words)] for _ in range(words_per_key)]
draws(wl, m) ==
    {[i \in 1..m |-> wl[r[i] + 1]] : r \in [1..m -> randbelow(Len(wl))]}

\* A variant whose loop stops one file early.
file_indices_short(n) == 1..(n - 1)

\* range(1, count_files + 1)
file_indices(n) == 1..n

key_file(path, i) == <<path, i>>

EmptyFiles == [x \in {} |-> <<>>]

\* f.write(new) on a file holding old, the position at its end, then the close
write_data(old, new) == old \o new

\* A variant that opens the file to append: an existing file keeps its content.
open_a(fs, path, i) ==
    IF key_file(path, i) \in DOMAIN fs THEN fs ELSE (key_file(path, i) :> <<>>) @@ fs

\* open(out_file, "w"): the file exists and is empty
open_w(fs, path, i) == (key_file(path, i) :> <<>>) @@ fs

(***************************************************************************)
(* The inputs of the model: what is on disk when the program starts and    *)
(* what the user types.                                                    *)
(***************************************************************************)
NoFile == [exists |-> FALSE, lines |-> <<>>]

text_file(lines) == [exists |-> TRUE, lines |-> lines]

ConfigFiles ==
    {NoFile,
     text_file(<<>>),
     text_file(<<cfg_line("#", <<>>), cfg_line("count_files", <<" ", "2">>)>>),
     text_file(<<cfg_line("count_files", <<"0">>)>>),
     text_file(<<cfg_line("count_files", <<"x">>)>>),
     text_file(<<cfg_line("words_per_key", <<"0">>), cfg_line("count_files", <<"2">>)>>),
     text_file(<<cfg_line("words_per_key", <<"-", "1">>)>>),
     text_file(<<cfg_line("theme", <<"dark">>)>>),
     text_file(<<cfg_line("output_path", <<"out">>), cfg_line("words_per_key", <<"1">>)>>)}

WordlistFiles ==
    {NoFile,
     text_file(<< <<"1">>, <<>> >>),
     text_file(<< <<"a">> >>),
     text_file(<< <<"b">>, <<"B", " ">> >>)}

TypedDigits == {<<digit_char(d)>> : d \in 0..MaxDigit}

\* the lines a user types at a numeric prompt
NumInputs ==
    TypedDigits \cup {<<>>, <<" ", "1">>, <<"x">>, <<"-", "1">>, <<"sup2">>}

\* the lines a user types at a path prompt
PathInputs == {<<>>, <<"out">>}

\* the lines a user types at the main menu
MenuInputs == {<<"1">>, <<"2">>, <<"3">>, <<"x">>, <<>>}

Init ==
    /\ pc = "boot"
    /\ exit_status = -1
    /\ exit_cause = "none"
    /\ config_file \in ConfigFiles
    /\ wordlist_file \in WordlistFiles
    /\ dirs = {}
    /\ files = EmptyFiles
    /\ cfg = EmptyDict
    /\ first_run = FALSE
    /\ count = 0
    /\ words_per_key = 0
    /\ out_path = <<>>
    /\ wordlist = <<>>
    /\ file_idx = 0
    /\ selected = <<>>
    /\ printed = {}
    /\ word = <<>>
    /\ san = <<>>
    /\ sigint = FALSE
    /\ runs = 0
    /\ pre_files = EmptyFiles
    /\ pre_dirs = {}
    /\ writes = <<>>

disk == <<config_file, wordlist_file, dirs, files>>
menu_locals == <<cfg, first_run, count, words_per_key, out_path, wordlist>>
gen_locals == <<file_idx, selected>>
gen_history == <<pre_files, pre_dirs, writes>>
san_vars == <<word, san>>
exit_vars == <<exit_status, exit_cause>>

(***************************************************************************)
(* How the process ends.                                                   *)
(***************************************************************************)
\* the process ends with the given status
exits(status, cause) ==
    /\ pc' = "exited"
    /\ exit_status' = status
    /\ exit_cause' = cause

\* an exception no handler catches: the interpreter prints a traceback, status 1
uncaught(cause) ==
    /\ exits(1, cause)
    /\ printed' = printed \cup {"traceback"}

(***************************************************************************)
(* generate_keys, from its call to the first file (lines 145-152).         *)
(***************************************************************************)
\* A variant of ensure_output_path that reports the failure and goes on.
mkdir_failed_returning(shown) ==
    /\ pc' = "gen_end_pause"
    /\ printed' = shown \cup {"unable to create a directory", "generation ended"}
    /\ UNCHANGED <<dirs, files, gen_locals, exit_vars>>

\* ensure_output_path's except branch, up to its print_timed
mkdir_failed(shown) ==
    /\ pc' = "mkdir_pause"
    /\ printed' = shown \cup {"unable to create a directory"}
    /\ UNCHANGED <<dirs, files, gen_locals, exit_vars>>

\* the call generate_keys(wl, n, m, path) with `shown` on the screen
generate_keys(wl, n, path, shown) ==
    /\ IF Len(wl) = 0
       THEN /\ pc' = "gen_empty_pause"
            /\ printed' = shown \cup {"wordlist is empty after cleaning"}
            /\ UNCHANGED <<dirs, files, gen_locals, exit_vars>>
       ELSE \/ /\ path \notin dirs
               /\ mkdir_failed(shown)
            \/ /\ dirs' = dirs \cup {path}
               /\ file_idx' = 1
               /\ IF 1 \in file_indices(n)
                  THEN /\ pc' = "gen_loop"
                       /\ printed' = shown
                  ELSE /\ pc' = "gen_end_pause"
                       /\ printed' = shown \cup {"generation ended"}
               /\ UNCHANGED <<files, selected, exit_vars>>

(***************************************************************************)
(* main_menu, lines 227-235: load the word list and generate.              *)
(***************************************************************************)
\* lines 229-235 with the loaded list wl
after_load(wl, n, path) ==
    /\ wordlist' = wl
    /\ IF Len(wl) = 0
       THEN /\ pc' = "empty_key"
            /\ printed' = printed \cup {"words loaded"}
            /\ UNCHANGED <<dirs, files, gen_locals, exit_vars>>
       ELSE generate_keys(wl, n, path, printed \cup {"words loaded"})

\* line 228 on: load_and_clean_wordlist stops in print_timed when the file is missing
load_and_generate(n, m, path) ==
    /\ count' = n
    /\ words_per_key' = m
    /\ out_path' = path
    /\ IF ~wordlist_file.exists
       THEN /\ pc' = "nf_pause"
            /\ printed' = printed \cup {"wordlist is not found"}
            /\ UNCHANGED <<wordlist, dirs, files, gen_locals, exit_vars>>
       ELSE after_load(load_and_clean_wordlist(wordlist_file), n, path)

(***************************************************************************)
(* main_menu.                                                              *)
(***************************************************************************)
\* history: a run of "Generate keys" starts, and finds the disk as it is
run_starts ==
    /\ pre_files' = files
    /\ pre_dirs' = dirs
    /\ writes' = <<>>

\* lines 199-200
ReadConfig ==
    /\ pc = "boot"
    /\ ~sigint
    /\ cfg' = read_config(config_file)
    /\ config_file' = IF config_file.exists THEN config_file
                      ELSE write_config(DEFAULT_CONFIG)
    /\ first_run' = (cfg' = DEFAULT_CONFIG)
    /\ pc' = "menu"
    /\ UNCHANGED <<exit_vars, wordlist_file, dirs, files, count, words_per_key,
                   out_path, wordlist, gen_locals, printed, san_vars, sigint,
                   runs, gen_history>>

\* choice 1 on a first run: the first prompt is shown
MenuGenerateFirstRun ==
    /\ pc = "menu"
    /\ ~sigint
    /\ first_run
    /\ runs < MaxRuns
    /\ runs' = runs + 1
    /\ run_starts
    /\ pc' = "fr_count"
    /\ printed' = {}
    /\ UNCHANGED <<exit_vars, disk, menu_locals, gen_locals, san_vars, sigint>>

\* choice 1 later: lines 223-225, then the load and the generation
MenuGenerate ==
    /\ pc = "menu"
    /\ ~sigint
    /\ ~first_run
    /\ runs < MaxRuns
    /\ runs' = runs + 1
    /\ run_starts
    /\ LET c == cfg_get_or(cfg, "count_files", DEFAULT_CONFIG["count_files"])
           w == cfg_get_or(cfg, "words_per_key", DEFAULT_CONFIG["words_per_key"])
           p == cfg_get_or(cfg, "output_path", DEFAULT_CONFIG["output_path"])
       IN  IF int_raises(c) \/ int_raises(w)
           THEN /\ uncaught("int(cfg) raised ValueError")
                /\ UNCHANGED <<disk, menu_locals, gen_locals>>
           ELSE /\ load_and_generate(int(c), int(w), p)
                /\ UNCHANGED <<config_file, wordlist_file, cfg, first_run>>
    /\ UNCHANGED <<san_vars, sigint>>

\* choice 2: settings_menu shows its first prompt
MenuSettings ==
    /\ pc = "menu"
    /\ ~sigint
    /\ pc' = "set_count"
    /\ printed' = {}
    /\ UNCHANGED <<exit_vars, disk, menu_locals, gen_locals, san_vars, sigint,
                   runs, gen_history>>

\* choice 3
MenuExit ==
    /\ pc = "menu"
    /\ ~sigint
    /\ pc' = "leave_pause"
    /\ printed' = {"leaving"}
    /\ UNCHANGED <<exit_vars, disk, menu_locals, gen_locals, san_vars, sigint,
                   runs, gen_history>>

\* any other choice
MenuOther ==
    /\ pc = "menu"
    /\ ~sigint
    /\ \E c \in MenuInputs \ {<<"1">>, <<"2">>, <<"3">>} :
          /\ strip(c) \notin {<<"1">>, <<"2">>, <<"3">>}
          /\ pc' = "bad_pause"
    /\ printed' = {"incorrect selection"}
    /\ UNCHANGED <<exit_vars, disk, menu_locals, gen_locals, san_vars, sigint,
                   runs, gen_history>>

\* the "Press any key" input that ends a handler: back to the top of the loop.
\* count, words_per_key, out_path and wordlist keep their values in the code, but
\* every path of choice 1 assigns them before it reads them: the model forgets them.
PressKey ==
    /\ pc \in {"empty_key", "gen_key", "set_key", "bad_key"}
    /\ ~sigint
    /\ pc' = "menu"
    /\ printed' = {}
    /\ count' = 0
    /\ words_per_key' = 0
    /\ out_path' = <<>>
    /\ wordlist' = <<>>
    /\ pre_files' = EmptyFiles
    /\ pre_dirs' = {}
    /\ writes' = <<>>
    /\ UNCHANGED <<exit_vars, disk, cfg, first_run, gen_locals, san_vars, sigint, runs>>

(***************************************************************************)
(* The first-run prompts of "Generate keys" (lines 210-221).               *)
(***************************************************************************)
\* prompt_positive_int for count_files, with the line r typed
PromptCount ==
    /\ pc = "fr_count"
    /\ ~sigint
    /\ \E r \in NumInputs :
          LET a == prompt_positive_int(r, int(DEFAULT_CONFIG["count_files"]))
          IN  IF a.kind = "raised"
              THEN /\ uncaught("prompt raised ValueError")
                   /\ UNCHANGED count
              ELSE /\ count' = a.value
                   /\ pc' = IF a.kind = "warned" THEN "fr_count_warn" ELSE "fr_words"
                   /\ printed' = IF a.kind = "warned"
                                 THEN printed \cup {"invalid value: using defaults"}
                                 ELSE printed
                   /\ UNCHANGED exit_vars
    /\ UNCHANGED <<disk, cfg, first_run, words_per_key, out_path, wordlist,
                   gen_locals, san_vars, sigint, runs, gen_history>>

\* prompt_positive_int for words_per_key, with the line r typed
PromptWords ==
    /\ pc = "fr_words"
    /\ ~sigint
    /\ \E r \in NumInputs :
          LET a == prompt_positive_int(r, int(DEFAULT_CONFIG["words_per_key"]))
          IN  IF a.kind = "raised"
              THEN /\ uncaught("prompt raised ValueError")
                   /\ UNCHANGED words_per_key
              ELSE /\ words_per_key' = a.value
                   /\ pc' = IF a.kind = "warned" THEN "fr_words_warn" ELSE "fr_path"
                   /\ printed' = IF a.kind = "warned"
                                 THEN printed \cup {"invalid value: using defaults"}
                                 ELSE printed
                   /\ UNCHANGED exit_vars
    /\ UNCHANGED <<disk, cfg, first_run, count, out_path, wordlist,
                   gen_locals, san_vars, sigint, runs, gen_history>>

\* lines 213-221, then the load and the generation
PromptPath ==
    /\ pc = "fr_path"
    /\ ~sigint
    /\ \E r \in PathInputs :
          LET p == IF strip(r) = <<>> THEN DEFAULT_CONFIG["output_path"] ELSE strip(r)
              c == cfg_set(cfg_set(cfg_set(cfg, "count_files", str(count)),
                                   "words_per_key", str(words_per_key)),
                           "output_path", p)
          IN  /\ cfg' = c
              /\ config_file' = write_config(c)
              /\ first_run' = FALSE
              /\ load_and_generate(count, words_per_key, p)
    /\ UNCHANGED <<wordlist_file, san_vars, sigint, runs, gen_history>>

(***************************************************************************)
(* settings_menu (lines 160-196).                                          *)
(***************************************************************************)
\* one numeric setting, with the line r typed: lines 166-173 and 176-183
numeric_setting(key, r, next, warn) ==
    LET new == strip(r)
        p == is_positive_int_str(new)
    IN  IF new = <<>>
        THEN /\ pc' = next
             /\ UNCHANGED <<cfg, printed, exit_vars>>
        ELSE IF p = "True"
        THEN /\ cfg' = cfg_set(cfg, key, new)
             /\ pc' = next
             /\ UNCHANGED <<printed, exit_vars>>
        ELSE IF p = "ValueError"
        THEN /\ uncaught("settings raised ValueError")
             /\ UNCHANGED cfg
        ELSE /\ pc' = warn
             /\ printed' = printed \cup {"invalid value: taking previous one"}
             /\ UNCHANGED <<cfg, exit_vars>>

SettingsCount ==
    /\ pc = "set_count"
    /\ ~sigint
    /\ \E r \in NumInputs : numeric_setting("count_files", r, "set_words", "set_count_warn")
    /\ UNCHANGED <<disk, first_run, count, words_per_key, out_path, wordlist,
                   gen_locals, san_vars, sigint, runs, gen_history>>

SettingsWords ==
    /\ pc = "set_words"
    /\ ~sigint
    /\ \E r \in NumInputs : numeric_setting("words_per_key", r, "set_path", "set_words_warn")
    /\ UNCHANGED <<disk, first_run, count, words_per_key, out_path, wordlist,
                   gen_locals, san_vars, sigint, runs, gen_history>>

\* lines 186-195
SettingsPath ==
    /\ pc = "set_path"
    /\ ~sigint
    /\ \E r \in PathInputs :
          LET c == fill_defaults(IF strip(r) = <<>> THEN cfg
                                 ELSE cfg_set(cfg, "output_path", strip(r)))
          IN  /\ cfg' = c
              /\ config_file' = write_config(c)
    /\ pc' = "set_saved_pause"
    /\ printed' = printed \cup {"settings saved"}
    /\ UNCHANGED <<exit_vars, wordlist_file, dirs, files, first_run, count,
                   words_per_key, out_path, wordlist, gen_locals, san_vars,
                   sigint, runs, gen_history>>

(***************************************************************************)
(* generate_keys's loop (lines 152-157).                                   *)
(***************************************************************************)
\* line 153 to the open of line 155: the words are drawn and the file is opened
GenOpen ==
    /\ pc = "gen_loop"
    /\ ~sigint
    /\ selected' \in draws(wordlist, words_per_key)
    /\ files' = open_w(files, out_path, file_idx)
    /\ pc' = "gen_opened"
    /\ UNCHANGED <<exit_vars, config_file, wordlist_file, dirs, menu_locals,
                   file_idx, printed, san_vars, sigint, runs, gen_history>>

\* line 156 and the close, then the next index or the end of the loop
GenWrite ==
    /\ pc = "gen_opened"
    /\ ~sigint
    /\ files' = [files EXCEPT ![key_file(out_path, file_idx)] =
                                   write_data(@, join(selected))]
    /\ writes' = Append(writes, file_idx)
    /\ file_idx' = file_idx + 1
    /\ IF file_idx + 1 \in file_indices(count)
       THEN /\ pc' = "gen_loop"
            /\ UNCHANGED printed
       ELSE /\ pc' = "gen_end_pause"
            /\ printed' = printed \cup {"generation ended"}
    /\ UNCHANGED <<exit_vars, config_file, wordlist_file, dirs, menu_locals,
                   selected, san_vars, sigint, runs, pre_files, pre_dirs>>

\* line 156 raises OSError (the disk is full): the file is closed as it is
GenWriteError ==
    /\ pc = "gen_opened"
    /\ ~sigint
    /\ uncaught("write raised OSError")
    /\ UNCHANGED <<disk, menu_locals, gen_locals, san_vars, sigint, runs,
                   gen_history>>

(***************************************************************************)
(* print_timed's sleep, and what the caller does when it returns.          *)
(***************************************************************************)
Pauses ==
    {"fr_count_warn", "fr_words_warn", "nf_pause", "mkdir_pause", "gen_end_pause",
     "gen_empty_pause", "set_count_warn", "set_words_warn", "set_saved_pause",
     "leave_pause", "bad_pause"}

\* the code from the end of the sleep to the next blocking call
resume ==
    /\ pc \in Pauses
    /\ CASE pc = "nf_pause" ->
              /\ after_load(<<>>, count, out_path)
              /\ UNCHANGED <<config_file, wordlist_file, cfg, first_run, count,
                             words_per_key, out_path, gen_history>>
         [] pc = "mkdir_pause" ->
              /\ exits(1, "mkdir")
              /\ UNCHANGED <<disk, menu_locals, gen_locals, gen_history, printed>>
         [] pc = "leave_pause" ->
              /\ exits(0, "exit chosen")
              /\ UNCHANGED <<disk, menu_locals, gen_locals, gen_history, printed>>
         [] pc = "set_saved_pause" ->
              /\ pc' = "set_key"
              /\ first_run' = FALSE
              /\ UNCHANGED <<disk, cfg, count, words_per_key, out_path, wordlist,
                             gen_locals, gen_history, printed, exit_vars>>
         [] pc \in {"gen_end_pause", "gen_empty_pause"} ->
              \* generate_keys returns: its locals are gone
              /\ pc' = "gen_key"
              /\ file_idx' = 0
              /\ selected' = <<>>
              /\ UNCHANGED <<disk, menu_locals, gen_history, printed, exit_vars>>
         [] OTHER ->
              /\ pc' = CASE pc = "fr_count_warn" -> "fr_words"
                         [] pc = "fr_words_warn" -> "fr_path"
                         [] pc = "set_count_warn" -> "set_words"
                         [] pc = "set_words_warn" -> "set_path"
                         [] pc = "bad_pause" -> "bad_key"
              /\ UNCHANGED <<disk, menu_locals, gen_locals, gen_history, printed,
                             exit_vars>>
    /\ UNCHANGED <<san_vars, runs>>

\* time.sleep returns after the delay
PauseOver ==
    /\ ~sigint
    /\ resume
    /\ UNCHANGED sigint

(***************************************************************************)
(* KeyboardInterrupt: Python raises it in the process wherever it is.      *)
(***************************************************************************)
\* the user presses Ctrl-C
Interrupt ==
    /\ pc # "exited"
    /\ ~sigint
    /\ sigint' = TRUE
    /\ UNCHANGED <<pc, exit_vars, disk, menu_locals, gen_locals, printed, san_vars,
                   runs, gen_history>>

\* the exception leaves main_menu and reaches the handler of lines 252-255
\* (a file being written is closed as it is)
propagate ==
    /\ sigint' = FALSE
    /\ pc' = "handler"
    /\ printed' = printed \cup {"interrupted by the user"}
    /\ UNCHANGED <<exit_vars, disk, menu_locals, gen_locals, san_vars, runs,
                   gen_history>>

\* lines 65-69: raised during the sleep, the exception only ends the sleep
SigintInPause ==
    /\ sigint
    /\ pc \in Pauses
    /\ sigint' = FALSE
    /\ resume

Interruptible ==
    {"boot", "menu", "fr_count", "fr_words", "fr_path", "empty_key", "gen_key",
     "set_count", "set_words", "set_path", "set_key", "bad_key",
     "gen_loop", "gen_opened"}

\* raised anywhere else in main_menu
SigintCaught ==
    /\ sigint
    /\ pc \in Interruptible
    /\ propagate

\* lines 253-255 run to their end
HandlerDone ==
    /\ pc = "handler"
    /\ ~sigint
    /\ exits(0, "interrupted")
    /\ UNCHANGED <<disk, menu_locals, gen_locals, printed, san_vars, sigint,
                   runs, gen_history>>

\* raised inside the handler, the exception is caught by nothing:
\* the process dies of SIGINT, which a shell reports as status 130
SigintInHandler ==
    /\ pc = "handler"
    /\ sigint
    /\ sigint' = FALSE
    /\ exits(130, "interrupted in the handler")
    /\ printed' = printed \cup {"traceback"}
    /\ UNCHANGED <<disk, menu_locals, gen_locals, san_vars, runs, gen_history>>

(***************************************************************************)
(* The environment: the word list is edited while the menu waits.          *)
(***************************************************************************)
EditWordlist ==
    /\ pc = "menu"
    /\ ~sigint
    /\ runs > 0
    /\ wordlist_file' \in WordlistFiles \ {wordlist_file}
    /\ UNCHANGED <<pc, exit_vars, config_file, dirs, files, menu_locals,
                   gen_locals, printed, san_vars, sigint, runs, gen_history>>

Next ==
    \/ ReadConfig
    \/ MenuGenerateFirstRun
    \/ MenuGenerate
    \/ MenuSettings
    \/ MenuExit
    \/ MenuOther
    \/ PressKey
    \/ PromptCount
    \/ PromptWords
    \/ PromptPath
    \/ SettingsCount
    \/ SettingsWords
    \/ SettingsPath
    \/ GenOpen
    \/ GenWrite
    \/ GenWriteError
    \/ PauseOver
    \/ Interrupt
    \/ SigintInPause
    \/ SigintCaught
    \/ HandlerDone
    \/ SigintInHandler
    \/ EditWordlist

Spec == Init /\ [][Next]_vars

(***************************************************************************)
(* sanitize_word called on its own, on every line of up to MaxLineLen      *)
(* characters.                                                             *)
(***************************************************************************)
SanChars == {"a", "B", "ZH", "ua_i", "-", "'", " ", "\t", "1"}

\* everything but the disk, the position and the arguments of the call modelled
idle_menu ==
    /\ exit_status = -1
    /\ exit_cause = "none"
    /\ config_file = NoFile
    /\ cfg = EmptyDict
    /\ first_run = FALSE
    /\ printed = {}
    /\ sigint = FALSE
    /\ runs = 0

InitSanitize ==
    /\ pc = "san_call"
    /\ word \in SeqsUpTo(SanChars, MaxLineLen)
    /\ san = <<>>
    /\ idle_menu
    /\ wordlist_file = NoFile
    /\ dirs = {}
    /\ files = EmptyFiles
    /\ count = 0
    /\ words_per_key = 0
    /\ out_path = <<>>
    /\ wordlist = <<>>
    /\ file_idx = 0
    /\ selected = <<>>
    /\ pre_files = EmptyFiles
    /\ pre_dirs = {}
    /\ writes = <<>>

SanitizeCall ==
    /\ pc = "san_call"
    /\ san' = sanitize_word(word)
    /\ pc' = "san_ret"
    /\ UNCHANGED <<exit_vars, disk, menu_locals, gen_locals, printed, word, sigint,
                   runs, gen_history>>

SpecSanitize == InitSanitize /\ [][SanitizeCall]_vars

(***************************************************************************)
(* load_and_clean_wordlist called on its own, on every file of up to       *)
(* MaxLines lines.                                                         *)
(***************************************************************************)
LoadLines == {<<"a">>, <<"A", " ">>, <<"b">>, <<"b", "-">>, <<"1">>, <<>>}

InitLoad ==
    /\ pc = "load_call"
    /\ wordlist_file \in {NoFile} \cup {text_file(l) : l \in SeqsUpTo(LoadLines, MaxLines)}
    /\ wordlist = <<>>
    /\ idle_menu
    /\ word = <<>>
    /\ san = <<>>
    /\ dirs = {}
    /\ files = EmptyFiles
    /\ count = 0
    /\ words_per_key = 0
    /\ out_path = <<>>
    /\ file_idx = 0
    /\ selected = <<>>
    /\ pre_files = EmptyFiles
    /\ pre_dirs = {}
    /\ writes = <<>>

LoadCall ==
    /\ pc = "load_call"
    /\ wordlist' = load_and_clean_wordlist(wordlist_file)
    /\ pc' = "load_ret"
    /\ printed' = IF wordlist_file.exists THEN printed
                  ELSE printed \cup {"wordlist is not found"}
    /\ UNCHANGED <<exit_vars, disk, cfg, first_run, count, words_per_key, out_path,
                   gen_locals, san_vars, sigint, runs, gen_history>>

SpecLoad == InitLoad /\ [][LoadCall]_vars

(***************************************************************************)
(* generate_keys called on its own: every word list of GenWordlists, every *)
(* count_files up to MaxCount and words_per_key up to MaxWords, into a     *)
(* directory that is missing, empty, or holds key files of an earlier run. *)
(***************************************************************************)
GenWordlists == {<<>>, << <<"a">> >>, << <<"a">>, <<"b", "-">> >>}

OldKey == <<"o", "l", "d">>

InitGen ==
    /\ pc = "gen_call"
    /\ wordlist \in GenWordlists
    /\ count \in 0..MaxCount
    /\ words_per_key \in 0..MaxWords
    /\ out_path = <<"results">>
    /\ \/ /\ dirs = {}
          /\ files = EmptyFiles
       \/ /\ dirs = {<<"results">>}
          /\ files \in {EmptyFiles,
                        (key_file(<<"results">>, 1) :> OldKey)
                          @@ (key_file(<<"results">>, MaxCount + 1) :> OldKey)}
    /\ idle_menu
    /\ wordlist_file = NoFile
    /\ word = <<>>
    /\ san = <<>>
    /\ file_idx = 0
    /\ selected = <<>>
    /\ pre_files = EmptyFiles
    /\ pre_dirs = {}
    /\ writes = <<>>

GenCall ==
    /\ pc = "gen_call"
    /\ run_starts
    /\ generate_keys(wordlist, count, out_path, {})
    /\ UNCHANGED <<config_file, wordlist_file, menu_locals, san_vars, sigint, runs>>

NextGen ==
    \/ GenCall
    \/ GenOpen
    \/ GenWrite
    \/ PauseOver

SpecGen == InitGen /\ [][NextGen]_vars

(***************************************************************************)
(* What the claims speak of.                                               *)
(***************************************************************************)
\* s with its leading and trailing whitespace removed, said without recursion
Stripped(s) ==
    LET solid == {i \in 1..Len(s) : s[i] \notin Whitespace}
    IN  IF solid = {} THEN <<>>
        ELSE SubSeq(s, CHOOSE i \in solid : \A j \in solid : i <= j,
                       CHOOSE i \in solid : \A j \in solid : j <= i)

\* the normalised form of a raw line: stripped, its spaces removed, lower-cased
Normalised(s) ==
    LET t == Stripped(s)
        kept == SelectSeq(t, LAMBDA c : c # " ")
    IN  [i \in 1..Len(kept) |-> lower_char(kept[i])]

RECURSIVE Tokens(_)
\* the space-separated tokens of a key file's content, as s.split(" ") gives them
Tokens(s) ==
    IF \A i \in 1..Len(s) : s[i] # " " THEN <<s>>
    ELSE LET k == CHOOSE i \in 1..Len(s) : s[i] = " " /\ \A j \in 1..(i - 1) : s[j] # " "
         IN  <<SubSeq(s, 1, k - 1)>> \o Tokens(SubSeq(s, k + 1, Len(s)))

\* the words of a key file's content: its tokens, none for an empty file
Words(s) == IF s = <<>> THEN <<>> ELSE Tokens(s)

\* the content is exactly m words of the list wl
IsKey(s, wl, m) ==
    /\ Len(Tokens(s)) = m
    /\ \A j \in 1..Len(Tokens(s)) : Tokens(s)[j] \in Range(wl)

\* C1: sanitize_word returns the empty string or exactly the normalised line
\* (stripped, spaces removed, lower-cased); a non-empty result holds only
\* allowed characters and no whitespace; a normalised line with even one
\* character outside the allowed set gives the empty string.
C1_SanitizeAllOrNothing ==
    pc = "san_ret" =>
        LET n == Normalised(word)
        IN  /\ san \in {<<>>, n}
            /\ \A i \in 1..Len(san) :
                  /\ san[i] \in allowed
                  /\ san[i] \notin Whitespace
                  /\ lower_char(san[i]) = san[i]
            /\ (\E i \in 1..Len(n) : n[i] \notin allowed) => san = <<>>

\* a line with an upper-case letter, an inner space and outer whitespace is kept
C1_Witness ==
    /\ pc = "san_ret"
    /\ word = <<" ", "B", "\t">>
    /\ san = <<"b">>

\* the sanitized form of line k of the word-list file
CleanedLine(k) == sanitize_word(wordlist_file.lines[k] \o <<"\n">>)

\* the first line of the file whose sanitized form is t
FirstLine(t) ==
    CHOOSE k \in 1..Len(wordlist_file.lines) :
        /\ CleanedLine(k) = t
        /\ \A j \in 1..(k - 1) : CleanedLine(j) # t

\* C2: the loader returns the non-empty sanitized lines, each once, in the order
\* of their first occurrence in the file: no token twice, every token the
\* sanitized form of a line, every line with a non-empty sanitized form
\* represented, tokens ordered by first occurrence.  These determine the list,
\* so the same content always loads to the same list.  A missing file gives [].
C2_LoadDedupesInOrder ==
    pc = "load_ret" =>
        IF ~wordlist_file.exists THEN wordlist = <<>>
        ELSE LET lines == wordlist_file.lines
             IN  /\ \A i, j \in 1..Len(wordlist) : i # j => wordlist[i] # wordlist[j]
                 /\ \A i \in 1..Len(wordlist) :
                       /\ wordlist[i] # <<>>
                       /\ \E k \in 1..Len(lines) : CleanedLine(k) = wordlist[i]
                 /\ \A k \in 1..Len(lines) :
                       CleanedLine(k) # <<>> => CleanedLine(k) \in Range(wordlist)
                 /\ \A i, j \in 1..Len(wordlist) :
                       i < j => FirstLine(wordlist[i]) < FirstLine(wordlist[j])

\* a file with a rejected line, a repeated word and a word first seen later
C2_Witness ==
    /\ pc = "load_ret"
    /\ wordlist_file.lines = << <<"b">>, <<"1">>, <<"A", " ">>, <<"b">> >>
    /\ wordlist = << <<"b">>, <<"a">> >>

\* the indices 1..n in order
UpTo(n) == [i \in 1..n |-> i]

\* the call of generate_keys has returned after its loop
Completed == pc = "gen_key" /\ "generation ended" \in printed

\* C3: a completed generate_keys call with a non-empty list, n >= 1 files and
\* m >= 1 words writes key_1 .. key_n once each and no other file; each holds
\* exactly m space-separated tokens, all members of the list; a one-word list
\* gives that word m times.
C3_WritesExactlyTheKeys ==
    (Completed /\ wordlist # <<>> /\ count >= 1 /\ words_per_key >= 1) =>
        LET mine == {key_file(out_path, i) : i \in 1..count}
        IN  /\ writes = UpTo(count)
            /\ DOMAIN files = DOMAIN pre_files \cup mine
            /\ \A k \in DOMAIN files \ mine : files[k] = pre_files[k]
            /\ \A k \in mine : IsKey(files[k], wordlist, words_per_key)
            /\ Len(wordlist) = 1 =>
                  \A k \in mine :
                      files[k] = join([j \in 1..words_per_key |-> wordlist[1]])

\* three files of three words each written over an earlier run's key files
C3_Witness ==
    /\ Completed
    /\ count = 3
    /\ words_per_key = 3
    /\ Len(wordlist) = 2
    /\ pre_files # EmptyFiles
    /\ files[key_file(out_path, 1)] = <<"a", " ", "b", "-", " ", "a">>
    /\ files[key_file(out_path, MaxCount + 1)] = OldKey

\* C9: sampling is with replacement and independent: whatever the files hold,
\* every sequence of m words of the list can be drawn for the file at hand
\* (repeats included, m above the size of the list included), and what is
\* drawn is what the file then holds.
C9_EverySequencePossible ==
    /\ pc = "gen_loop" =>
          \A sq \in [1..words_per_key -> Range(wordlist)] :
              ENABLED (GenOpen /\ selected' = sq)
    /\ pc = "gen_opened" =>
          ENABLED (GenWrite /\ files'[key_file(out_path, file_idx)] = join(selected))

\* two files of one run: one repeats a word of a two-word list three times,
\* the other holds a different sequence
C9_Witness ==
    /\ Completed
    /\ Len(wordlist) = 2
    /\ words_per_key = 3
    /\ count >= 2
    /\ files[key_file(out_path, 1)] = <<"a", " ", "a", " ", "a">>
    /\ files[key_file(out_path, 2)] = <<"b", "-", " ", "a", " ", "b", "-">>

(***************************************************************************)
(* The claims about a session at the menu.                                 *)
(***************************************************************************)
\* the messages that tell the user the word list cannot be used
FailureMessages == {"wordlist is not found", "wordlist is empty after cleaning"}

\* the positions inside generate_keys, and right after its return
InGenerateKeys ==
    {"mkdir_pause", "gen_loop", "gen_opened", "gen_end_pause", "gen_empty_pause",
     "gen_key"}

\* C4: with a word list that cleans to nothing, "Generate keys" writes no key
\* file, creates no directory, reports a failure, and the process does not end
\* there but comes back to the menu.
C4_EmptyListReportedBackToMenu ==
    load_and_clean_wordlist(wordlist_file) = <<>> =>
        /\ exit_cause \notin {"int(cfg) raised ValueError", "prompt raised ValueError"}
        /\ pc \notin InGenerateKeys
        /\ pc = "empty_key" =>
              /\ files = pre_files
              /\ dirs = pre_dirs
              /\ printed \cap FailureMessages # {}

\* C5: whenever main_menu calls generate_keys, count_files and words_per_key
\* are integers >= 1, and a value of the configuration file never ends the
\* process.
C5_GenerateArgsValidated ==
    /\ exit_cause # "int(cfg) raised ValueError"
    /\ pc \in InGenerateKeys => (count >= 1 /\ words_per_key >= 1)

\* C6: an invalid number typed at a first-run prompt or in the settings menu
\* makes the program warn and use the default value of that parameter, and
\* never ends the process.
C6_InvalidInputFallsBackToDefault ==
    /\ exit_cause \notin {"prompt raised ValueError", "settings raised ValueError"}
    /\ pc = "fr_count_warn" =>
          /\ count = int(DEFAULT_CONFIG["count_files"])
          /\ "invalid value: using defaults" \in printed
    /\ pc = "fr_words_warn" =>
          /\ words_per_key = int(DEFAULT_CONFIG["words_per_key"])
          /\ "invalid value: using defaults" \in printed
    /\ pc = "set_count_warn" =>
          /\ cfg["count_files"] = DEFAULT_CONFIG["count_files"]
          /\ "invalid value: taking previous one" \in printed
    /\ pc = "set_words_warn" =>
          /\ cfg["words_per_key"] = DEFAULT_CONFIG["words_per_key"]
          /\ "invalid value: taking previous one" \in printed

\* the directory could not be created: the process is in the pause that
\* follows the message or has ended with status 1; nothing was written, the
\* directory is still missing, the menu is not shown again
MkdirFailureIsFatal ==
    "unable to create a directory" \in printed =>
        /\ \/ pc = "mkdir_pause"
           \/ pc = "exited" /\ exit_status = 1 /\ exit_cause = "mkdir"
        /\ files = pre_files
        /\ out_path \notin dirs

\* Exit was chosen: the process is in the pause that follows or has ended with 0
ExitChoiceEndsWithZero ==
    "leaving" \in printed =>
        \/ pc = "leave_pause"
        \/ pc = "exited" /\ exit_status = 0 /\ exit_cause = "exit chosen"

\* the step in which the process reacts to a KeyboardInterrupt
Reacts == sigint /\ ~sigint'

\* the process leaves main_menu for the top-level handler
GoesToHandler == pc' = "handler" /\ exit_status' = -1

\* the top-level handler, left alone, ends the process with status 0
HandlerEndsWithZero ==
    /\ (pc = "handler" /\ ~sigint) => ENABLED HandlerDone
    /\ exit_cause = "interrupted" => (pc = "exited" /\ exit_status = 0)

\* C7 as stated: a failed directory creation ends the process with status 1,
\* nothing written and no return to the menu; Exit and every interruption end
\* it with status 0.
C7_EveryInterruptionEndsWithZero ==
    /\ [](MkdirFailureIsFatal /\ ExitChoiceEndsWithZero /\ HandlerEndsWithZero)
    /\ [][Reacts => GoesToHandler]_vars

\* C7, amended: as above for the directory and for Exit; an interruption raised
\* while main_menu waits for input or writes the files reaches the top-level
\* handler, which ends the process with status 0; raised during a timed pause
\* it only ends the pause and the program goes on; raised inside the handler it
\* kills the process.
C7_ExitStatuses ==
    /\ [](MkdirFailureIsFatal /\ ExitChoiceEndsWithZero /\ HandlerEndsWithZero)
    /\ [][Reacts =>
            CASE pc \in Pauses -> pc' # "handler" /\ exit_cause' # "interrupted"
              [] pc = "handler" -> pc' = "exited" /\ exit_status' # 0
              [] OTHER -> GoesToHandler]_vars

\* the directory could not be created and the process has ended with status 1
C7_Witness ==
    /\ pc = "exited"
    /\ exit_status = 1
    /\ exit_cause = "mkdir"
    /\ runs = 2
    /\ pre_files # EmptyFiles

\* the run under way when the process was interrupted or failed
RunCutShort ==
    /\ \/ pc = "handler"
       \/ pc = "exited" /\ exit_cause \in {"interrupted", "write raised OSError"}
    /\ file_idx >= 1
    /\ words_per_key >= 1

\* C8: an interruption or error during a generation run leaves every key file
\* of the run fully written (exactly words_per_key words of the list) or
\* untouched (absent, or with its previous content).
C8_NoPartialKeyFile ==
    RunCutShort =>
        \A i \in 1..count :
            LET k == key_file(out_path, i)
            IN  \/ k \in DOMAIN files /\ IsKey(files[k], wordlist, words_per_key)
                \/ k \notin DOMAIN files /\ k \notin DOMAIN pre_files
                \/ /\ k \in DOMAIN files
                   /\ k \in DOMAIN pre_files
                   /\ files[k] = pre_files[k]

\* the key files of the latest run
LatestKeys == {key_file(out_path, i) : i \in 1..count}

\* the key files in the directory of the latest run
KeysInDirectory == {k \in DOMAIN files : k[1] = out_path}

\* every word of the file is a word of the latest run's list
OfLatestList(k) ==
    \A j \in 1..Len(Words(files[k])) : Words(files[k])[j] \in Range(wordlist)

\* C10 as stated: after a completed run the directory holds exactly key_1 ..
\* key_n of that run, and every word in them is of that run's list.
C10_OnlyLatestKeysRemain ==
    Completed =>
        /\ KeysInDirectory = LatestKeys
        /\ \A k \in KeysInDirectory : OfLatestList(k)

\* C10, amended: after a completed run the directory holds key_1 .. key_n of
\* that run, each overwritten whole with words of that run's list (exactly
\* words_per_key of them when words_per_key >= 1); every other key file is one
\* an earlier run left, and survives with the content it had.
C10_LatestKeysOverwrittenOldOnesStay ==
    Completed =>
        /\ LatestKeys \subseteq KeysInDirectory
        /\ \A k \in LatestKeys :
              /\ OfLatestList(k)
              /\ words_per_key >= 1 => IsKey(files[k], wordlist, words_per_key)
        /\ \A k \in DOMAIN files \ LatestKeys :
              k \in DOMAIN pre_files /\ files[k] = pre_files[k]
        /\ DOMAIN pre_files \subseteq DOMAIN files

\* a second run of one file over a first run of two: key_1 is rewritten with
\* the new list, key_2 still holds words of the old one
C10_Witness ==
    /\ Completed
    /\ count = 1
    /\ wordlist = << <<"b">> >>
    /\ key_file(out_path, 1) \in DOMAIN pre_files
    /\ key_file(out_path, 2) \in DOMAIN files
    /\ files[key_file(out_path, 1)] # pre_files[key_file(out_path, 1)]
    /\ files[key_file(out_path, 2)] = <<"a", " ", "a">>

====
